---- MODULE Spec2Model ----
(***************************************************************************)
(* Model of src/script.js: the cart store, its localStorage persistence,   *)
(* the price parser, and the product / cart modal handlers.                *)
(*                                                                         *)
(* Conventions.  A JavaScript string is a sequence of one-character (price *)
(* text) or one-token (names, image references) strings, so that template  *)
(* concatenation and the regular-expression strip are computed, not        *)
(* assumed.  The empty sequence is the empty string; an absent dataset     *)
(* attribute and an empty one are both falsy in every test the code makes  *)
(* (a || b, a && b), so both are the empty sequence.                       *)
(***************************************************************************)
EXTENDS Integers, Sequences, FiniteSets, TLC

VARIABLES
    lsAvailable,      \* localStorage usable (isLocalStorageAvailable's probe succeeds)
    storage,          \* the text stored under STORAGE_KEY
    cart,             \* the in-memory cart object
    badge,            \* #cartCount textContent (total quantity shown)
    rendered,         \* #cartList content: the rows, or the empty-state message
    staged,           \* addToCartBtn.dataset.product: <<>> or <<product>>
    opened,           \* the card whose click last populated the product modal
    sizesShown,       \* #modalSizes display is 'block'
    selectedSize,     \* value of the checked #modalSizes radio, "" when none
    btnDisabled,      \* addToCartBtn.disabled
    timers,           \* pending 200 ms re-enable timers, oldest first; each
                      \* records whether the click that set it added an item
    productModalOpen, \* #productModal displayed
    cartModalOpen,    \* #cartModal displayed
    lastEvent,        \* the handler that ran last, with its arguments
    priceIn,          \* input handed to safeParsePrice
    priceOut,         \* what safeParsePrice returned for it
    tabs,             \* two pages running the script side by side: per page its
                      \* storage availability, storage area, cart, badge and list
    areas,            \* the text under STORAGE_KEY in each storage area
    lastWriter        \* the page whose saveCart() ran last, 0 when none has

vars == <<lsAvailable, storage, cart, badge, rendered, staged, opened, sizesShown,
          selectedSize, btnDisabled, timers, productModalOpen, cartModalOpen,
          lastEvent, priceIn, priceOut, tabs, areas, lastWriter>>

uiVars == <<lsAvailable, storage, cart, badge, rendered, staged, opened, sizesShown,
            selectedSize, btnDisabled, timers, productModalOpen, cartModalOpen,
            lastEvent>>

parseVars == <<priceIn, priceOut>>

tabVars == <<tabs, areas, lastWriter>>

\* ------------------------------------------------------------------ bounds

\* Longest price text handed to the parser.
MaxLen == 4

\* Largest total quantity an add or an increase may bring the cart to.
MaxTotal == 2

\* Largest number of re-enable timers pending at once.
MaxTimers == 2

\* ------------------------------------------------------------ price parser

Digits == {"0", "1", "2", "3", "4", "5", "6", "7", "8", "9"}

\* The characters the regular expression /[^0-9.-]+/g keeps.
KeptChars == Digits \cup {".", "-"}

DigitVal(c) ==
    CASE c = "0" -> 0 [] c = "1" -> 1 [] c = "2" -> 2 [] c = "3" -> 3 [] c = "4" -> 4
      [] c = "5" -> 5 [] c = "6" -> 6 [] c = "7" -> 7 [] c = "8" -> 8 [] c = "9" -> 9

DigitChar(d) ==
    CASE d = 0 -> "0" [] d = 1 -> "1" [] d = 2 -> "2" [] d = 3 -> "3" [] d = 4 -> "4"
      [] d = 5 -> "5" [] d = 6 -> "6" [] d = 7 -> "7" [] d = 8 -> "8" [] d = 9 -> "9"

RECURSIVE Pow10(_)
Pow10(k) == IF k = 0 THEN 1 ELSE 10 * Pow10(k - 1)

\* A number is m / 10^k; nan marks NaN.
Num(m, k) == [nan |-> FALSE, m |-> m, k |-> k]
NaN == [nan |-> TRUE, m |-> 0, k |-> 0]
Zero == Num(0, 0)

NumEq(a, b) == a.nan = b.nan /\ (~a.nan => a.m * Pow10(b.k) = b.m * Pow10(a.k))

\* String.prototype.replace(/[^0-9.-]+/g, ''): every character outside
\* the kept class is dropped.
StripNoDotBug(s) == SelectSeq(s, LAMBDA c : c \in Digits \cup {"-"})
StripNonNumeric(s) == SelectSeq(s, LAMBDA c : c \in KeptChars)

RECURSIVE DigitsValue(_)
\* The integer written by the digits of s, the other characters skipped.
DigitsValue(s) ==
    IF s = <<>> THEN 0
    ELSE LET last == s[Len(s)]
             init == SubSeq(s, 1, Len(s) - 1)
         IN  IF last \in Digits THEN 10 * DigitsValue(init) + DigitVal(last)
             ELSE DigitsValue(init)

CountOf(s, c) == Cardinality({i \in 1..Len(s) : s[i] = c})

\* Number(text) for a text over the kept characters: the empty text is 0;
\* an optional sign followed by digits with at most one period and at least
\* one digit is that decimal; anything else is NaN.
JsNumber(s) ==
    IF s = <<>> THEN Zero
    ELSE LET neg  == s[1] = "-"
             body == IF neg THEN Tail(s) ELSE s
             ok   == /\ \A i \in 1..Len(body) : body[i] \in Digits \cup {"."}
                     /\ CountOf(body, ".") <= 1
                     /\ \E i \in 1..Len(body) : body[i] \in Digits
             dot  == IF CountOf(body, ".") = 1
                     THEN CHOOSE i \in 1..Len(body) : body[i] = "."
                     ELSE Len(body)
             m    == DigitsValue(body)
         IN  IF ok THEN Num(IF neg THEN -m ELSE m, Len(body) - dot) ELSE NaN

RECURSIVE NatToString(_)
NatToString(n) ==
    IF n < 10 THEN <<DigitChar(n)>> ELSE NatToString(n \div 10) \o <<DigitChar(n % 10)>>

Abs(n) == IF n < 0 THEN -n ELSE n

\* String(n) for a number with at most one decimal.
NumToString(n) ==
    IF n.nan THEN <<"N", "a", "N">>
    ELSE LET a    == Abs(n.m)
             sign == IF n.m < 0 THEN <<"-">> ELSE <<>>
         IN  IF n.k = 0 THEN sign \o NatToString(a)
             ELSE IF a % 10 = 0 THEN sign \o NatToString(a \div 10)
             ELSE sign \o NatToString(a \div 10) \o <<".", DigitChar(a % 10)>>

\* A value handed to safeParsePrice: absent (undefined, null), a bare number,
\* or a string.
Absent == [t |-> "absent", s |-> <<>>, n |-> Zero]
StrIn(s) == [t |-> "str", s |-> s, n |-> Zero]
NumIn(n) == [t |-> "num", s |-> <<>>, n |-> n]

\* !priceStr
Falsy(p) ==
    \/ p.t = "absent"
    \/ p.t = "str" /\ p.s = <<>>
    \/ p.t = "num" /\ (p.n.nan \/ p.n.m = 0)

\* String(priceStr)
JsString(p) == IF p.t = "num" THEN NumToString(p.n) ELSE p.s

safeParsePrice(p) ==
    IF Falsy(p) THEN Zero
    ELSE LET n == JsNumber(StripNonNumeric(JsString(p)))
         IN  IF n.nan THEN Zero ELSE n

\* formatPrice(n): '$' + Number(n || 0).toFixed(2), for amounts with at most
\* two decimals.
formatPrice(n) ==
    LET cents == IF n.nan THEN 0 ELSE n.m * Pow10(2 - n.k)
        a     == Abs(cents)
        sign  == IF cents < 0 THEN <<"-">> ELSE <<>>
    IN  <<"$">> \o sign \o NatToString(a \div 100)
            \o <<".", DigitChar((a % 100) \div 10), DigitChar(a % 10)>>

\* -------------------------------------------------------------- cart store

\* '$0.00', the placeholder price of lines 204, 268-272 and 359.
ZeroPrice == <<"$", "0", ".", "0", "0">>

\* cart = {} (lines 30, 231): a plain object with no entry.
EmptyCart == [arr |-> FALSE, ents |-> <<>>]

\* A line item stored under a key.
Entry(key, name, price, img, qty) ==
    [key |-> key, name |-> name, price |-> price, img |-> img, qty |-> qty]

Keys(c) == {c.ents[i].key : i \in 1..Len(c.ents)}

\* cart[key], for a key the cart owns.
Item(c, key) == c.ents[CHOOSE i \in 1..Len(c.ents) : c.ents[i].key = key]

\* it.qty || 0
OrZero(q) == IF q = 0 THEN 0 ELSE q

Max(a, b) == IF a >= b THEN a ELSE b

\* The entry under key replaced by e, its position kept.
Put(c, key, e) ==
    [c EXCEPT !.ents = [i \in 1..Len(c.ents) |->
                            IF c.ents[i].key = key THEN e ELSE c.ents[i]]]

\* delete cart[key]
Delete(c, key) == [c EXCEPT !.ents = SelectSeq(c.ents, LAMBDA e : e.key # key)]

\* Each cart operation yields the new cart and whether it went on to
\* saveCart() and updateCartBadge() (false on an early return).
Done(c) == [cart |-> c, ran |-> TRUE]
Skipped(c) == [cart |-> c, ran |-> FALSE]

addItemToCartAlwaysInserts(c, product) ==
    IF product.name = <<>> THEN Skipped(c)
    ELSE Done([c EXCEPT !.ents = Append(@,
                 Entry(product.name, product.name,
                       IF product.price = <<>> THEN ZeroPrice ELSE product.price,
                       product.img, 1))])

addItemToCart(c, product) ==
    IF product.name = <<>> THEN Skipped(c)
    ELSE LET key == product.name
         IN  IF key \in Keys(c)
             THEN Done(Put(c, key, [Item(c, key) EXCEPT !.qty = OrZero(@) + 1]))
             ELSE Done([c EXCEPT !.ents = Append(@,
                        Entry(key, product.name,
                              IF product.price = <<>> THEN ZeroPrice ELSE product.price,
                              product.img, 1))])

changeItemQtyKeepZeroBug(c, name, delta) ==
    IF name = <<>> \/ name \notin Keys(c) THEN Skipped(c)
    ELSE Done(Put(c, name, [Item(c, name) EXCEPT !.qty = Max(0, OrZero(@) + delta)]))

changeItemQty(c, name, delta) ==
    IF name = <<>> \/ name \notin Keys(c) THEN Skipped(c)
    ELSE LET q == Max(0, OrZero(Item(c, name).qty) + delta)
         IN  IF q = 0 THEN Done(Delete(c, name))
             ELSE Done(Put(c, name, [Item(c, name) EXCEPT !.qty = q]))

removeItem(c, name) == IF name = <<>> THEN Skipped(c) ELSE Done(Delete(c, name))

clearCartKeepsEntries(c) == Done(c)
clearCart(c) == Done(EmptyCart)

\* ------------------------------------------------------------- persistence

\* The text under STORAGE_KEY.  t is what the text is: "missing" (no such
\* key), "invalid" (JSON.parse throws), the JSON scalars "null", "num",
\* "str", "bool", a JSON "list" or a JSON "obj"; ents are the members of a
\* list or an object.
Text(t, ents) == [t |-> t, ents |-> ents]

\* The keys an array serialises: its indices.
IndexKey(i) == <<DigitChar(i - 1)>>
IsIndexKey(k) == \E i \in 1..10 : k = IndexKey(i)

\* JSON.stringify(cart): an object writes every own entry; an array writes
\* its indexed elements only, so the named properties set on it are dropped.
Stringify(c) ==
    IF c.arr THEN Text("list", SelectSeq(c.ents, LAMBDA e : IsIndexKey(e.key)))
    ELSE Text("obj", c.ents)

\* JSON.parse(raw): threw, or the value.
JsonParse(raw) ==
    IF raw.t = "invalid" THEN [threw |-> TRUE, t |-> "undefined", ents |-> <<>>]
    ELSE [threw |-> FALSE, t |-> raw.t, ents |-> raw.ents]

isLocalStorageAvailable(avail) == avail

\* saveCart(): the text under the key afterwards.
saveCartWithoutProbe(avail, old, c) == Stringify(c)
saveCart(avail, old, c) ==
    IF ~isLocalStorageAvailable(avail) THEN old ELSE Stringify(c)

\* loadCart(): the cart returned, and whether an exception escaped.
\* parsed && typeof parsed === 'object' holds of objects and of arrays.
loadCart(avail, raw) ==
    IF ~isLocalStorageAvailable(avail) THEN [threw |-> FALSE, cart |-> EmptyCart]
    ELSE IF raw.t = "missing" THEN [threw |-> FALSE, cart |-> EmptyCart]
    ELSE LET parsed == JsonParse(raw)
         IN  IF parsed.threw THEN [threw |-> FALSE, cart |-> EmptyCart]
             ELSE IF parsed.t \in {"obj", "list"}
                  THEN [threw |-> FALSE,
                        cart  |-> [arr |-> parsed.t = "list", ents |-> parsed.ents]]
                  ELSE [threw |-> FALSE, cart |-> EmptyCart]

\* --------------------------------------------------------------- rendering

RECURSIVE SumQty(_)
SumQty(ents) ==
    IF ents = <<>> THEN 0 ELSE OrZero(Head(ents).qty) + SumQty(Tail(ents))

\* updateCartBadge(): the count written to #cartCount.
updateCartBadgeCountsEntries(c) == Len(c.ents)
updateCartBadge(c) == SumQty(c.ents)

\* price * qty in cents, for prices of at most two decimals.
Cents(n) == n.m * Pow10(2 - n.k)

RECURSIVE SumCents(_)
SumCents(ents) ==
    IF ents = <<>> THEN 0
    ELSE Cents(safeParsePrice(StrIn(Head(ents).price))) * OrZero(Head(ents).qty)
            + SumCents(Tail(ents))

RECURSIVE SumUnitCents(_)
SumUnitCents(ents) ==
    IF ents = <<>> THEN 0
    ELSE Cents(safeParsePrice(StrIn(Head(ents).price))) + SumUnitCents(Tail(ents))

calculateTotalIgnoresQty(c) == Num(SumUnitCents(c.ents), 2)
calculateTotal(c) == Num(SumCents(c.ents), 2)

Unnamed == <<"Unnamed">>

\* renderCart(): the empty-state message, or one row per entry in
\* Object.values order, and the total.
renderCart(c) ==
    IF c.ents = <<>>
    THEN [empty |-> TRUE, rows |-> <<>>, total |-> formatPrice(Zero)]
    ELSE [empty |-> FALSE,
          rows  |-> [i \in 1..Len(c.ents) |->
                        [title    |-> IF c.ents[i].name = <<>> THEN Unnamed
                                      ELSE c.ents[i].name,
                         price    |-> formatPrice(safeParsePrice(StrIn(c.ents[i].price))),
                         qty      |-> OrZero(c.ents[i].qty),
                         dataName |-> c.ents[i].name]],
          total |-> formatPrice(calculateTotal(c))]

\* ------------------------------------------------------------------- cards

P250 == <<"$", "2", ".", "5", "0">>
P300 == <<"$", "3", ".", "0", "0">>
P350 == <<"$", "3", ".", "5", "0">>
P400 == <<"$", "4", ".", "0", "0">>
P450 == <<"$", "4", ".", "5", "0">>

\* A product card: its dataset (data-name, data-pricenormal, data-price-normal,
\* data-price-medium, data-price-large, data-price-venti, data-price,
\* data-desc, data-img) and the text of the children the handler falls back
\* to (.product-name, .price-badge, img src).
Card(name, pricenormal, priceNormal, priceMedium, priceLarge, priceVenti, price, img, nameText, badgeText) ==
    [name |-> name, pricenormal |-> pricenormal, priceNormal |-> priceNormal,
     priceMedium |-> priceMedium, priceLarge |-> priceLarge,
     priceVenti |-> priceVenti, price |-> price, desc |-> <<>>, img |-> img,
     nameText |-> nameText, badgeText |-> badgeText, imgSrc |-> <<>>]

\* A drink with the four tier prices.
LatteCard ==
    Card(<<"Latte">>, <<>>, P300, P350, P400, P450, <<>>, <<"latte.png">>, <<>>, <<>>)

\* A pastry with one flat price.
SconeCard ==
    Card(<<"Scone">>, <<>>, <<>>, <<>>, <<>>, <<>>, P250, <<>>, <<>>, <<>>)

Cards == {LatteCard, SconeCard}

\* No card has been clicked yet.
NoCard == Card(<<"-">>, <<>>, <<>>, <<>>, <<>>, <<>>, <<>>, <<>>, <<>>, <<>>)

Sizes == {"normal", "medium", "large", "venti"}

\* a || b on strings
Or(a, b) == IF a # <<>> THEN a ELSE b

\* Line 286: the card shows the four tier prices and the size choice.
IsMultiSize(c) ==
    c.priceMedium # <<>> /\ c.priceLarge # <<>> /\ c.priceVenti # <<>>
        /\ c.priceNormal # <<>>

\* Lines 266-274 and 314: what the card click stages on the add control,
\* JSON.stringify({ name, normal, medium, large, venti, img, desc }).
Stage(c) ==
    [name   |-> Or(c.name, Or(c.nameText, Unnamed)),
     normal |-> Or(c.pricenormal, ZeroPrice),
     medium |-> Or(c.priceMedium, ZeroPrice),
     large  |-> Or(c.priceLarge, ZeroPrice),
     venti  |-> Or(c.priceVenti, ZeroPrice),
     img    |-> Or(c.img, c.imgSrc),
     desc   |-> c.desc]

\* p.price: a property the staged object may not have reads as undefined.
PriceOf(p) == IF "price" \in DOMAIN p THEN p.price ELSE <<>>

\* Lines 347-360: the price of the item to add.
finalPrice(p, size) ==
    CASE size = "medium" -> p.medium
      [] size = "normal" -> p.normal
      [] size = "large"  -> p.large
      [] size = "venti"  -> p.venti
      [] OTHER -> Or(PriceOf(p), Or(p.normal, Or(p.medium, Or(p.large,
                     Or(p.venti, ZeroPrice)))))

\* Line 364: `${p.name} (${selectedSize})`, or p.name when no size is checked.
finalName(p, size) ==
    IF size # "" THEN p.name \o <<" (", size, ")">> ELSE p.name

\* Lines 363-367.
finalItem(p, size) ==
    [name |-> finalName(p, size), price |-> finalPrice(p, size), img |-> p.img]

\* ------------------------------------------------------- persisted texts

\* What may lie under the key when the page loads: nothing, text that does
\* not parse, the JSON scalars, lists, and objects written by an earlier
\* session or by other code using the key.
PersistedTexts ==
    { Text("missing", <<>>), Text("invalid", <<>>), Text("null", <<>>),
      Text("num", <<>>), Text("str", <<>>), Text("bool", <<>>),
      Text("list", <<>>),
      Text("list", <<Entry(IndexKey(1), <<"Latte">>, P450, <<>>, 1)>>),
      Text("obj", <<>>),
      Text("obj", <<Entry(<<"Latte">>, <<"Latte">>, P450, <<>>, 1)>>),
      Text("obj", <<Entry(<<"Scone">>, <<"Scone">>, P250, <<>>, 0)>>),
      Text("obj", <<Entry(<<"Old">>, <<"Tea">>, P300, <<>>, 1)>>) }

\* ------------------------------------------------------------------ events

\* The handler that ran last: "init", "add", "increase", "decrease",
\* "remove", "clear", or "ui" for the handlers that touch no cart data.
\* hit: the add found a staged product; the row's name was a key of the
\* cart; the clear was confirmed; loadCart returned without throwing.
Ev(ev, hit) == [ev |-> ev, hit |-> hit]

Pending == [done |-> FALSE, n |-> Zero]

RECURSIVE TotalQty(_)
TotalQty(ents) == IF ents = <<>> THEN 0 ELSE Max(Head(ents).qty, 1) + TotalQty(Tail(ents))

WithinBounds(c) == TotalQty(c.ents) <= MaxTotal

\* init() (lines 255-260, 457): hydrate, badge, first render.
InitPage ==
    /\ lsAvailable \in BOOLEAN
    /\ storage \in (IF lsAvailable THEN PersistedTexts ELSE {Text("missing", <<>>)})
    /\ cart = loadCart(lsAvailable, storage).cart
    /\ badge = updateCartBadge(cart)
    /\ rendered = renderCart(cart)
    /\ staged = <<>>
    /\ opened = NoCard
    /\ sizesShown = FALSE
    /\ selectedSize = ""
    /\ btnDisabled = FALSE
    /\ timers = <<>>
    /\ productModalOpen = FALSE
    /\ cartModalOpen = FALSE
    /\ lastEvent = Ev("init", ~loadCart(lsAvailable, storage).threw)

\* A page of the two-page specifications: whether it has run init(), whether
\* its storage probe succeeds, the storage area it uses, and its cart, badge
\* and rendered list.
Tab(started, avail, area, c) ==
    [started |-> started, avail |-> avail, area |-> area, cart |-> c,
     badge |-> updateCartBadge(c), rendered |-> renderCart(c)]

Tabs == {1, 2}

\* The second page is not opened.
TabsIdle ==
    /\ tabs = [t \in Tabs |-> Tab(FALSE, FALSE, 1, EmptyCart)]
    /\ areas = [a \in Tabs |-> Text("missing", <<>>)]
    /\ lastWriter = 0

Init ==
    /\ InitPage
    /\ priceIn = Absent
    /\ priceOut = Pending
    /\ TabsIdle

\* The page loads with nothing under the storage key.
InitFresh == Init /\ storage = Text("missing", <<>>)

\* openModal(selector) (lines 237-245): the modal's displayed flag afterwards.
openModal(open) == TRUE

\* closeModal(selector) (lines 247-252): the modal's displayed flag afterwards.
closeModalKeepsShown(open) == open
closeModal(open) == FALSE

\* Card click (lines 263-321).
CardClick(c) ==
    /\ sizesShown' = IsMultiSize(c)
    /\ btnDisabled' = FALSE
    /\ staged' = <<Stage(c)>>
    /\ opened' = c
    /\ productModalOpen' = openModal(productModalOpen)
    /\ lastEvent' = Ev("ui", TRUE)
    /\ UNCHANGED <<lsAvailable, storage, cart, badge, rendered, selectedSize, timers,
                   cartModalOpen, priceIn, priceOut, tabVars>>

\* The user checks a size radio of the size choice shown in the open modal
\* (the input line 344 reads back).
SelectSize(s) ==
    /\ productModalOpen /\ sizesShown
    /\ selectedSize' = s
    /\ lastEvent' = Ev("ui", TRUE)
    /\ UNCHANGED <<lsAvailable, storage, cart, badge, rendered, staged, opened,
                   sizesShown, btnDisabled, timers, productModalOpen, cartModalOpen,
                   priceIn, priceOut, tabVars>>

\* Line 337 sets disabled; line 341 clears it again when nothing is staged.
DisabledAfterAddBug(found) == FALSE
DisabledAfterAdd(found) == found

\* setTimeout(..., 200) in the finally block (line 378): the pending timers
\* afterwards; timers of equal delay fire in the order they were set.
setTimeoutNotScheduled(q, added) == q
setTimeout(q, added) == Append(q, added)

\* Add-control click (lines 335-380).  A disabled button receives no click.
AddClick ==
    /\ ~btnDisabled
    /\ Len(timers) < MaxTimers
    /\ IF staged = <<>>
       THEN /\ lastEvent' = Ev("add", FALSE)
            /\ UNCHANGED <<storage, cart, badge, rendered, productModalOpen>>
       ELSE LET item == finalItem(staged[1], selectedSize)
                r    == addItemToCart(cart, item)
            IN  /\ cart' = r.cart
                /\ WithinBounds(cart')
                /\ storage' = IF r.ran THEN saveCart(lsAvailable, storage, cart')
                              ELSE storage
                /\ badge' = IF r.ran THEN updateCartBadge(cart') ELSE badge
                /\ rendered' = renderCart(cart')
                /\ productModalOpen' = closeModal(productModalOpen)
                /\ lastEvent' = Ev("add", TRUE)
    /\ btnDisabled' = DisabledAfterAdd(staged # <<>>)
    /\ timers' = setTimeout(timers, staged # <<>>)
    /\ UNCHANGED <<lsAvailable, staged, opened, sizesShown, selectedSize,
                   cartModalOpen, priceIn, priceOut, tabVars>>

\* The oldest re-enable timer (line 378) fires.
TimerFire ==
    /\ timers # <<>>
    /\ timers' = Tail(timers)
    /\ btnDisabled' = FALSE
    /\ lastEvent' = Ev("ui", TRUE)
    /\ UNCHANGED <<lsAvailable, storage, cart, badge, rendered, staged, opened,
                   sizesShown, selectedSize, productModalOpen, cartModalOpen, priceIn,
                   priceOut, tabVars>>

\* Cart button click (lines 386-389).
CartButtonClick ==
    /\ rendered' = renderCart(cart)
    /\ cartModalOpen' = openModal(cartModalOpen)
    /\ lastEvent' = Ev("ui", TRUE)
    /\ UNCHANGED <<lsAvailable, storage, cart, badge, staged, opened, sizesShown,
                   selectedSize, btnDisabled, timers, productModalOpen, priceIn,
                   priceOut, tabVars>>

\* Lines 401-407: the store operation a row button stands for.
Dispatch(c, action, name) ==
    CASE action = "increase" -> changeItemQty(c, name, 1)
      [] action = "decrease" -> changeItemQty(c, name, -1)
      [] action = "remove"   -> removeItem(c, name)

\* Click on a button of row i of the rendered list (lines 395-409).
CartListClick(i, action) ==
    /\ i \in 1..Len(rendered.rows)
    /\ LET name == rendered.rows[i].dataName
       IN  IF name = <<>>
           THEN /\ lastEvent' = Ev(action, FALSE)
                /\ UNCHANGED <<storage, cart, badge, rendered>>
           ELSE LET r == Dispatch(cart, action, name)
                IN  /\ cart' = r.cart
                    /\ WithinBounds(cart') \/ action # "increase"
                    /\ storage' = IF r.ran THEN saveCart(lsAvailable, storage, cart')
                                  ELSE storage
                    /\ badge' = IF r.ran THEN updateCartBadge(cart') ELSE badge
                    /\ rendered' = renderCart(cart')
                    /\ lastEvent' = Ev(action, name \in Keys(cart))
    /\ UNCHANGED <<lsAvailable, staged, opened, sizesShown, selectedSize, btnDisabled,
                   timers, productModalOpen, cartModalOpen, priceIn, priceOut,
                   tabVars>>

\* Clear-all click (lines 424-429), the confirm() answered by the user.
ClearClick(confirmed) ==
    /\ IF confirmed
       THEN LET r == clearCart(cart)
            IN  /\ cart' = r.cart
                /\ storage' = saveCart(lsAvailable, storage, cart')
                /\ badge' = updateCartBadge(cart')
                /\ rendered' = renderCart(cart')
       ELSE UNCHANGED <<storage, cart, badge, rendered>>
    /\ lastEvent' = Ev("clear", confirmed)
    /\ UNCHANGED <<lsAvailable, staged, opened, sizesShown, selectedSize, btnDisabled,
                   timers, productModalOpen, cartModalOpen, priceIn, priceOut,
                   tabVars>>

\* The modals a close control or overlay may lie in: ev.target.closest(...)
\* finds the product modal, the cart modal, or none.
Modals == {"product", "cart", "none"}

\* Click on a close control or an overlay (lines 433-446): the nearest modal
\* parent is hidden, and both modals when there is none.
CloseClick(m) ==
    /\ productModalOpen' = IF m \in {"product", "none"} THEN closeModal(productModalOpen)
                            ELSE productModalOpen
    /\ cartModalOpen' = IF m \in {"cart", "none"} THEN closeModal(cartModalOpen)
                         ELSE cartModalOpen
    /\ lastEvent' = Ev("ui", TRUE)
    /\ UNCHANGED <<lsAvailable, storage, cart, badge, rendered, staged, opened,
                   sizesShown, selectedSize, btnDisabled, timers, priceIn, priceOut,
                   tabVars>>

\* Escape key (lines 449-454): both modals are closed.
EscapeKey ==
    /\ productModalOpen' = closeModal(productModalOpen)
    /\ cartModalOpen' = closeModal(cartModalOpen)
    /\ lastEvent' = Ev("ui", TRUE)
    /\ UNCHANGED <<lsAvailable, storage, cart, badge, rendered, staged, opened,
                   sizesShown, selectedSize, btnDisabled, timers, priceIn, priceOut,
                   tabVars>>

Rows == 1..(MaxTotal + 1)

Next ==
    \/ \E c \in Cards : CardClick(c)
    \/ \E s \in Sizes : SelectSize(s)
    \/ AddClick
    \/ TimerFire
    \/ CartButtonClick
    \/ \E i \in Rows, a \in {"increase", "decrease", "remove"} : CartListClick(i, a)
    \/ \E b \in BOOLEAN : ClearClick(b)
    \/ \E m \in Modals : CloseClick(m)
    \/ EscapeKey

Spec == Init /\ [][Next]_vars

SpecFresh == InitFresh /\ [][Next]_vars

\* A timer that is set fires: the browser runs the callback of line 378 once
\* its delay has passed, whatever else the user does.
SpecLive == Init /\ [][Next]_vars /\ WF_vars(TimerFire)

\* ------------------------------------------------------------ two pages

\* Two pages run the script.  A page's handlers are taken at the store
\* operation they end in: the add of the staged item (lines 370-371), a row
\* button (lines 395-409), the confirmed clear (lines 424-429); each is
\* followed by renderCart(), as in the handlers.

\* The items the add control hands to addItemToCart: a product, the same
\* product name at another price, a product with neither price nor image,
\* and one with a price and no image.
StoreProducts ==
    { [name |-> <<"Latte">>, price |-> P450, img |-> <<"latte.png">>],
      [name |-> <<"Latte">>, price |-> P300, img |-> <<"latte.png">>],
      [name |-> <<"Scone">>, price |-> <<>>, img |-> <<>>],
      [name |-> <<"Tea">>, price |-> P300, img |-> <<>>] }

\* The page after a store operation with result r and the render that follows.
TabAfter(tab, r) ==
    [tab EXCEPT !.cart = r.cart,
                !.badge = IF r.ran THEN updateCartBadge(r.cart) ELSE @,
                !.rendered = renderCart(r.cart)]

\* The storage areas after page tab's store operation with result r.
AreasAfter(tab, r) ==
    IF r.ran THEN [areas EXCEPT ![tab.area] = saveCart(tab.avail, @, r.cart)]
    ELSE areas

\* The store operation a click on button action of row i stands for on a
\* page (lines 395-409); nothing runs when the row has no name.
RowOp(tab, i, action) ==
    LET name == tab.rendered.rows[i].dataName
    IN  IF name = <<>> THEN Skipped(tab.cart) ELSE Dispatch(tab.cart, action, name)

RowActions == {"increase", "decrease", "remove"}

\* init() on page t (lines 255-260, 457).
TabStart(t) ==
    /\ ~tabs[t].started
    /\ tabs' = [tabs EXCEPT ![t] =
                   Tab(TRUE, @.avail, @.area, loadCart(@.avail, areas[@.area]).cart)]
    /\ UNCHANGED <<areas, lastWriter, uiVars, parseVars>>

\* Some page's storage write happened: saveCart() ran with storage available.
Wrote(tab, r) == r.ran /\ isLocalStorageAvailable(tab.avail)

\* Page t adds the item p.
TabAdd(t, p) ==
    /\ tabs[t].started
    /\ LET r == addItemToCart(tabs[t].cart, p)
       IN  /\ WithinBounds(r.cart)
           /\ areas' = AreasAfter(tabs[t], r)
           /\ lastWriter' = IF Wrote(tabs[t], r) THEN t ELSE lastWriter
           /\ tabs' = [tabs EXCEPT ![t] = TabAfter(@, r)]
    /\ UNCHANGED <<uiVars, parseVars>>

\* A row button is clicked on page t.
TabListClick(t, i, action) ==
    /\ tabs[t].started
    /\ i \in 1..Len(tabs[t].rendered.rows)
    /\ LET r == RowOp(tabs[t], i, action)
       IN  /\ WithinBounds(r.cart) \/ action # "increase"
           /\ areas' = AreasAfter(tabs[t], r)
           /\ lastWriter' = IF Wrote(tabs[t], r) THEN t ELSE lastWriter
           /\ tabs' = [tabs EXCEPT ![t] = TabAfter(@, r)]
    /\ UNCHANGED <<uiVars, parseVars>>

\* The clear is confirmed on page t.
TabClear(t) ==
    /\ tabs[t].started
    /\ LET r == clearCart(tabs[t].cart)
       IN  /\ areas' = AreasAfter(tabs[t], r)
           /\ lastWriter' = IF Wrote(tabs[t], r) THEN t ELSE lastWriter
           /\ tabs' = [tabs EXCEPT ![t] = TabAfter(@, r)]
    /\ UNCHANGED <<uiVars, parseVars>>

\* The single page of the other specifications stays as loaded.
PageIdle ==
    /\ InitPage /\ lsAvailable /\ storage = Text("missing", <<>>)
    /\ priceIn = Absent
    /\ priceOut = Pending

\* Two tabs of one browser: both use storage area 1, which is available and
\* holds whatever was left under the key; neither has started.
InitTabs ==
    /\ PageIdle
    /\ tabs = [t \in Tabs |-> Tab(FALSE, TRUE, 1, EmptyCart)]
    /\ areas \in [Tabs -> PersistedTexts]
    /\ areas[2] = Text("missing", <<>>)
    /\ lastWriter = 0

NextTabs ==
    \/ \E t \in Tabs : TabStart(t)
    \/ \E t \in Tabs, p \in StoreProducts : TabAdd(t, p)
    \/ \E t \in Tabs, i \in Rows, a \in RowActions : TabListClick(t, i, a)
    \/ \E t \in Tabs : TabClear(t)

SpecTabs == InitTabs /\ [][NextTabs]_vars

\* ------------------------------------------- with and without storage

\* Two sessions receive the same clicks: page 1 has no usable storage
\* (whatever lies in area 1), page 2 has storage area 2 with nothing under
\* the key.  Both have run init().
InitDegraded ==
    /\ PageIdle
    /\ areas \in [Tabs -> PersistedTexts]
    /\ areas[2] = Text("missing", <<>>)
    /\ tabs = [t \in Tabs |->
                 Tab(TRUE, t = 2, t, loadCart(t = 2, areas[t]).cart)]
    /\ lastWriter = 0

\* Both pages after the same click, with results r1 and r2.
BothAfter(r1, r2) ==
    /\ tabs' = [tabs EXCEPT ![1] = TabAfter(@, r1), ![2] = TabAfter(@, r2)]
    /\ areas' = [areas EXCEPT
                   ![1] = IF r1.ran THEN saveCart(tabs[1].avail, @, r1.cart) ELSE @,
                   ![2] = IF r2.ran THEN saveCart(tabs[2].avail, @, r2.cart) ELSE @]
    /\ lastWriter' = IF Wrote(tabs[2], r2) THEN 2
                     ELSE IF Wrote(tabs[1], r1) THEN 1 ELSE lastWriter
    /\ UNCHANGED <<uiVars, parseVars>>

BothAdd(p) ==
    /\ WithinBounds(addItemToCart(tabs[1].cart, p).cart)
    /\ WithinBounds(addItemToCart(tabs[2].cart, p).cart)
    /\ BothAfter(addItemToCart(tabs[1].cart, p), addItemToCart(tabs[2].cart, p))

BothListClick(i, action) ==
    /\ i \in 1..Len(tabs[1].rendered.rows)
    /\ i \in 1..Len(tabs[2].rendered.rows)
    /\ \/ action # "increase"
       \/ /\ WithinBounds(RowOp(tabs[1], i, action).cart)
          /\ WithinBounds(RowOp(tabs[2], i, action).cart)
    /\ BothAfter(RowOp(tabs[1], i, action), RowOp(tabs[2], i, action))

BothClear == BothAfter(clearCart(tabs[1].cart), clearCart(tabs[2].cart))

NextDegraded ==
    \/ \E p \in StoreProducts : BothAdd(p)
    \/ \E i \in Rows, a \in RowActions : BothListClick(i, a)
    \/ BothClear

SpecDegraded == InitDegraded /\ [][NextDegraded]_vars

\* ------------------------------------------------- the parser on its own

\* The characters price texts are drawn from: digits, the period, the minus
\* sign, and two characters the expression strips.
ParseChars == {"0", "1", "5", ".", "-", "$", "a"}

PriceTexts == UNION {[1..n -> ParseChars] : n \in 0..MaxLen}

\* Bare numbers: 0, 5, -5, 1.5, -1.5 and NaN.
PriceNumbers == {Zero, Num(5, 0), Num(-5, 0), Num(15, 1), Num(-15, 1), NaN}

PriceInputs ==
    {Absent} \cup {StrIn(s) : s \in PriceTexts} \cup {NumIn(n) : n \in PriceNumbers}

InitParse ==
    /\ InitPage /\ lsAvailable /\ storage = Text("missing", <<>>)
    /\ priceIn \in PriceInputs
    /\ priceOut = Pending
    /\ TabsIdle

\* safeParsePrice(priceIn) is called.
Parse ==
    /\ ~priceOut.done
    /\ priceOut' = [done |-> TRUE, n |-> safeParsePrice(priceIn)]
    /\ UNCHANGED <<uiVars, priceIn, tabVars>>

NextParse == Parse

SpecParse == InitParse /\ [][NextParse]_vars

\* ------------------------------------------------------------------ claims

RECURSIVE SumOfQuantities(_)
SumOfQuantities(ents) ==
    IF ents = <<>> THEN 0 ELSE Head(ents).qty + SumOfQuantities(Tail(ents))

\* C1: from an empty cart, after every sequence of add / changeQuantity /
\* remove / clear, the badge shows the sum of the entries' quantities and no
\* entry of the cart has a quantity <= 0.  (Checked under SpecFresh.)
C1_BadgeIsSumAndQtyPositive ==
    /\ badge = SumOfQuantities(cart.ents)
    /\ \A i \in 1..Len(cart.ents) : cart.ents[i].qty > 0

\* Two entries are in the cart after an add, two units in all.
C1_Witness ==
    /\ lastEvent = Ev("add", TRUE)
    /\ Len(cart.ents) = 2
    /\ badge = 2

\* C2: with storage available, after every mutating cart operation a load
\* from storage yields the in-memory cart: the same keys and, per key, the
\* same name, price, image and quantity.
C2_LoadYieldsCart ==
    (lsAvailable /\ lastEvent.ev \in {"add", "increase", "decrease", "remove", "clear"}
        /\ lastEvent.hit)
    => LET loaded == loadCart(lsAvailable, storage).cart
       IN  /\ Keys(loaded) = Keys(cart)
           /\ \A k \in Keys(cart) : Item(loaded, k) = Item(cart, k)

\* The tier price the card shows for a size.
TierPrice(c, size) ==
    CASE size = "normal" -> c.priceNormal
      [] size = "medium" -> c.priceMedium
      [] size = "large"  -> c.priceLarge
      [] size = "venti"  -> c.priceVenti

\* C3: for a multi-size product opened in the detail view, the add with size
\* s selected adds a line item named "<product name> (s)" priced at the
\* card's tier price for s, for each of the four sizes.
C3_SizedItemAtTierPrice ==
    (lastEvent = Ev("add", TRUE) /\ IsMultiSize(opened) /\ selectedSize \in Sizes)
    => LET key == opened.name \o <<" (", selectedSize, ")">>
       IN  /\ key \in Keys(cart)
           /\ Item(cart, key).name = key
           /\ Item(cart, key).price = TierPrice(opened, selectedSize)

\* The first price present on the card among flat price, normal, medium,
\* large, venti; '$0.00' when none is.
FirstPresentPrice(c) ==
    Or(c.price, Or(Or(c.priceNormal, c.pricenormal), Or(c.priceMedium,
        Or(c.priceLarge, Or(c.priceVenti, ZeroPrice)))))

\* C4: with no size selected, the item added for the opened product is
\* priced at the first price present among flat price, normal, medium,
\* large, venti, and at '$0.00' only if all five are absent.
C4_FallbackPrice ==
    (lastEvent = Ev("add", TRUE) /\ selectedSize = "" /\ Len(cart.ents) = 1
        /\ cart.ents[1].qty = 1)
    => cart.ents[1].price = FirstPresentPrice(opened)

\* A click on the add control that added an item.
AddedStep == AddClick /\ staged # <<>>

\* C5 as stated: after the add control is activated it stays disabled until
\* the timer started by that activation fires, so no second add-to-cart takes
\* place while the timer of an earlier add is pending.
C5_NoAddWithinCooldown ==
    [][AddedStep => \A i \in 1..Len(timers) : ~timers[i]]_vars

\* C5 as amended: an activation that adds an item leaves the control
\* disabled with its timer pending, and a disabled control is enabled again
\* only by the firing of a pending timer or by a card click.
C5_DisabledUntilTimerOrCard ==
    [][/\ AddedStep => (btnDisabled' /\ timers' = Append(timers, TRUE))
       /\ (btnDisabled /\ ~btnDisabled') => (TimerFire \/ \E c \in Cards : CardClick(c))]_vars

\* An add took place while the timer of an earlier add was pending, and the
\* control is disabled again.
C5_Witness ==
    /\ lastEvent = Ev("add", TRUE)
    /\ timers = <<TRUE, TRUE>>
    /\ btnDisabled

\* C6: load returns an empty cart and raises nothing when storage is
\* unavailable, the key is missing, the text does not parse, or it parses to
\* null, a number, a string, a boolean or a list.
C6_LoadEmptyOnBadStorage ==
    (lastEvent.ev = "init"
        /\ (~lsAvailable \/ storage.t \in {"missing", "invalid", "null", "num", "str",
                                           "bool", "list"}))
    => (lastEvent.hit /\ cart.ents = <<>>)

\* C7: in every reachable state, the states after hydration included, every
\* entry of the cart has an integer quantity >= 1.
C7_QuantityAtLeastOne ==
    \A i \in 1..Len(cart.ents) : cart.ents[i].qty >= 1

\* C8: for every display price input the parser returns a non-negative
\* amount.  (Checked under SpecParse.)
C8_ParsedNonNegative ==
    priceOut.done => (~priceOut.n.nan /\ priceOut.n.m >= 0)

AllDigits(t) == \A i \in 1..Len(t) : t[i] \in Digits

RECURSIVE IntOf(_)
\* The integer a digit sequence writes.
IntOf(t) ==
    IF t = <<>> THEN 0 ELSE DigitVal(Head(t)) * Pow10(Len(t) - 1) + IntOf(Tail(t))

\* The numbers a text writes once the characters that are no digit, period
\* or minus sign are taken out: an optional minus sign, then digits with at
\* most one period among them and at least one digit.
EmbeddedNumbers(s) ==
    LET t == SelectSeq(s, LAMBDA c : c \in Digits \/ c = "." \/ c = "-")
        Shapes == {x \in {<<>>, <<"-">>} \X (0..Len(t)) \X {<<>>, <<".">>} :
                     LET sg == x[1]
                         ip == SubSeq(t, Len(sg) + 1, Len(sg) + x[2])
                         fp == SubSeq(t, Len(sg) + x[2] + Len(x[3]) + 1, Len(t))
                     IN  /\ Len(sg) + x[2] + Len(x[3]) <= Len(t)
                         /\ t = sg \o ip \o x[3] \o fp
                         /\ AllDigits(ip) /\ AllDigits(fp)
                         /\ Len(ip) + Len(fp) >= 1
                         /\ x[3] = <<>> => fp = <<>>}
    IN  {LET sg == x[1]
             ip == SubSeq(t, Len(sg) + 1, Len(sg) + x[2])
             fp == SubSeq(t, Len(sg) + x[2] + Len(x[3]) + 1, Len(t))
             v  == IntOf(ip) * Pow10(Len(fp)) + IntOf(fp)
         IN  Num(IF sg = <<>> THEN v ELSE -v, Len(fp)) : x \in Shapes}

\* C9: for a price string that is one number with extraneous characters
\* (none of them a digit, a period or a minus sign) around or inside it, the
\* parser returns that number; for an absent or unparsable input it returns
\* exactly 0.  (Checked under SpecParse.)
C9_EmbeddedNumberOrZero ==
    priceOut.done =>
        CASE priceIn.t = "absent" -> priceOut.n = Zero
          [] priceIn.t = "num" -> priceIn.n.nan => priceOut.n = Zero
          [] priceIn.t = "str" ->
                IF EmbeddedNumbers(priceIn.s) = {} THEN priceOut.n = Zero
                ELSE \A n \in EmbeddedNumbers(priceIn.s) : NumEq(priceOut.n, n)

\* '$1.5' has been parsed to 1.5.
C9_Witness ==
    /\ priceOut.done
    /\ priceIn = StrIn(<<"$", "1", ".", "5">>)
    /\ NumEq(priceOut.n, Num(15, 1))

\* What changeQuantity(name, delta) is to do to the cart c, giving d.
ChangedBy(c, d, name, delta) ==
    IF name \notin Keys(c) THEN d = c
    ELSE LET q == Max(0, Item(c, name).qty + delta)
         IN  /\ IF q = 0 THEN name \notin Keys(d)
                ELSE name \in Keys(d) /\ Item(d, name) = [Item(c, name) EXCEPT !.qty = q]
             /\ Keys(d) \subseteq Keys(c)
             /\ \A k \in Keys(c) \ {name} : k \in Keys(d) /\ Item(d, k) = Item(c, k)

\* The rendered list r shows the entries of the cart c and no other row.
ShowsExactly(r, c) ==
    /\ r.empty = (c.ents = <<>>)
    /\ Len(r.rows) = Len(c.ents)
    /\ \A j \in 1..Len(c.ents) :
          r.rows[j].dataName = c.ents[j].name /\ r.rows[j].qty = c.ents[j].qty

\* C10: changeQuantity(name, delta) changes nothing when name is not in the
\* cart; otherwise the entry's quantity becomes max(0, quantity + delta), the
\* entry is removed from the cart and from the rendered list when that is 0,
\* and every other entry is unchanged.
C10_ChangeQuantity ==
    [][\A i \in Rows :
          /\ CartListClick(i, "increase")
                => /\ ChangedBy(cart, cart', rendered.rows[i].dataName, 1)
                   /\ ShowsExactly(rendered', cart')
          /\ CartListClick(i, "decrease")
                => /\ ChangedBy(cart, cart', rendered.rows[i].dataName, -1)
                   /\ ShowsExactly(rendered', cart')]_vars

\* A decrease has removed the last unit of the only entry: the cart and the
\* rendered list are empty.
C10_Witness ==
    /\ lastEvent = Ev("decrease", TRUE)
    /\ cart.ents = <<>>
    /\ rendered.empty

\* The cart's total in cents: the sum over its entries of parsed unit price
\* times quantity.
RECURSIVE TotalInCents(_)
TotalInCents(ents) ==
    IF ents = <<>> THEN 0
    ELSE LET n == safeParsePrice(StrIn(Head(ents).price))
         IN  n.m * Pow10(2 - n.k) * Head(ents).qty + TotalInCents(Tail(ents))

\* What add(product) is to do to the cart c, giving d.
AddedTo(c, d, product) ==
    LET name == product.name
    IN  /\ IF name \in Keys(c)
           THEN /\ Len(d.ents) = Len(c.ents)
                /\ Keys(d) = Keys(c)
                /\ Item(d, name) = [Item(c, name) EXCEPT !.qty = @ + 1]
           ELSE /\ Len(d.ents) = Len(c.ents) + 1
                /\ Keys(d) = Keys(c) \cup {name}
                /\ Item(d, name) =
                      [key |-> name, name |-> name, qty |-> 1,
                       price |-> IF product.price = <<>> THEN ZeroPrice
                                 ELSE product.price,
                       img |-> product.img]
        /\ \A k \in Keys(c) \ {name} : k \in Keys(d) /\ Item(d, k) = Item(c, k)
        /\ LET n == safeParsePrice(StrIn(Item(d, name).price))
           IN  TotalInCents(d.ents) = TotalInCents(c.ents) + n.m * Pow10(2 - n.k)

\* C11: add(product) with a name that is a cart key adds 1 to that entry's
\* quantity and creates no second entry; with a new name it inserts one
\* entry of quantity 1, the price defaulting to '$0.00' and the image to empty;
\* the other entries are unchanged, and the total grows by the entry's price,
\* so that n adds of one product give one entry of quantity n and a total of
\* n times its price.  (Checked under SpecTabs.)
C11_AddIncrementsOrInserts ==
    [][\A t \in Tabs, p \in StoreProducts :
          TabAdd(t, p) => AddedTo(tabs[t].cart, tabs'[t].cart, p)]_vars

\* 'Latte' at '$4.50' was added twice: one entry, quantity 2, total '$9.00'.
C11_Witness ==
    \E t \in Tabs :
        /\ tabs[t].cart.ents = <<Entry(<<"Latte">>, <<"Latte">>, P450, <<"latte.png">>, 2)>>
        /\ tabs[t].rendered.total = <<"$", "9", ".", "0", "0">>

\* C12: after every sequence of user actions the rendered list is the
\* projection of the cart: one row per entry, in the cart's order, showing
\* the entry's name and quantity; the empty-state message is shown exactly
\* when the cart is empty; the displayed total is the sum over the entries of
\* parsed unit price times quantity.
C12_RenderIsProjection ==
    /\ rendered.empty <=> cart.ents = <<>>
    /\ Len(rendered.rows) = Len(cart.ents)
    /\ \A j \in 1..Len(cart.ents) :
          /\ rendered.rows[j].title = cart.ents[j].name
          /\ rendered.rows[j].qty = cart.ents[j].qty
    /\ NumEq(safeParsePrice(StrIn(rendered.total)), Num(TotalInCents(cart.ents), 2))

\* A remove left one of several entries, at quantity 1, in the cart and in the list.
C12_Witness ==
    /\ lastEvent = Ev("remove", TRUE)
    /\ Len(cart.ents) = 1
    /\ Len(rendered.rows) = 1
    /\ rendered.total = P400

\* C13: the clear-all control empties the cart only when the confirmation is
\* accepted: then the cart is empty, a load of the persisted copy gives the
\* empty cart, the badge shows 0 and the list shows the empty-state message;
\* on refusal the cart, the persisted copy and the list are unchanged.
C13_ClearOnlyWhenConfirmed ==
    [][/\ ClearClick(TRUE)
            => /\ cart'.ents = <<>>
               /\ loadCart(lsAvailable, storage').cart.ents = <<>>
               /\ lsAvailable => storage' = Text("obj", <<>>)
               /\ badge' = 0
               /\ rendered'.empty /\ rendered'.rows = <<>>
       /\ ClearClick(FALSE)
            => /\ cart' = cart
               /\ storage' = storage
               /\ rendered' = rendered]_vars

\* A clear was confirmed just after an add, its timer still pending: the
\* cart, the persisted copy and the list are empty.
C13_Witness ==
    /\ lastEvent = Ev("clear", TRUE)
    /\ timers = <<TRUE>>
    /\ lsAvailable /\ storage = Text("obj", <<>>)
    /\ cart = EmptyCart /\ badge = 0 /\ rendered.empty

\* C14: closing a modal by the close control, an overlay click or the Escape
\* key, from any state, hides the modal and leaves the cart, the persisted
\* cart and the staged product unchanged.
C14_CloseHidesAndKeepsData ==
    [][/\ CloseClick("product") => ~productModalOpen'
       /\ CloseClick("cart") => ~cartModalOpen'
       /\ CloseClick("none") => (~productModalOpen' /\ ~cartModalOpen')
       /\ EscapeKey => (~productModalOpen' /\ ~cartModalOpen')
       /\ ((\E m \in Modals : CloseClick(m)) \/ EscapeKey)
            => (cart' = cart /\ storage' = storage /\ staged' = staged)]_vars

\* A product was opened and its modal closed without an add: nothing was
\* ever saved, and the product is still staged.
C14_Witness ==
    /\ ~productModalOpen
    /\ staged # <<>>
    /\ lsAvailable /\ storage = Text("missing", <<>>)
    /\ cart = EmptyCart

\* The carts c and d have the same keys and, per key, the same name, price,
\* image and quantity.
SameCart(c, d) ==
    /\ Keys(c) = Keys(d)
    /\ \A k \in Keys(c) : Item(c, k) = Item(d, k)

\* Page t takes a step.
StepOf(t) ==
    \/ TabStart(t)
    \/ \E p \in StoreProducts : TabAdd(t, p)
    \/ \E i \in Rows, a \in RowActions : TabListClick(t, i, a)
    \/ TabClear(t)

\* C15: with two tabs on one storage key, under every interleaving the
\* persisted cart is the in-memory cart of the tab whose mutating operation
\* was the most recent, and a tab's in-memory cart is not changed by the
\* other tab's steps.  (Checked under SpecTabs.)
C15_LastWriteWins ==
    /\ [](lastWriter # 0 =>
            SameCart(loadCart(TRUE, areas[1]).cart, tabs[lastWriter].cart))
    /\ [][\A t \in Tabs : StepOf(t) => \A u \in Tabs \ {t} : tabs'[u] = tabs[u]]_vars

\* C15 for tabs whose carts are plain objects.
C15_ObjectCartsLastWriteWins ==
    [](lastWriter # 0 /\ ~tabs[lastWriter].cart.arr =>
            SameCart(loadCart(TRUE, areas[1]).cart, tabs[lastWriter].cart))

\* C16: with storage unavailable for the whole session, startup yields an
\* empty cart, save never writes, and every sequence of add / changeQuantity /
\* remove / clear gives the cart, badge and rendered list that the same
\* sequence gives from an empty cart with storage available.  (Checked under
\* SpecDegraded.)
C16_DegradedSameAsFresh ==
    /\ tabs[1].cart = EmptyCart
    /\ [](/\ tabs[1].cart = tabs[2].cart
          /\ tabs[1].badge = tabs[2].badge
          /\ tabs[1].rendered = tabs[2].rendered)
    /\ [][areas'[1] = areas[1]]_vars

\* Both sessions hold two entries; the unusable storage still holds what it
\* held at startup, the usable one what the session wrote.
C16_Witness ==
    /\ Len(tabs[1].cart.ents) = 2
    /\ Len(tabs[2].cart.ents) = 2
    /\ areas[1] = Text("obj", <<Entry(<<"Old">>, <<"Tea">>, P300, <<>>, 1)>>)
    /\ areas[2] = Text("obj", tabs[2].cart.ents)

\* The quantity held under key k, 0 when the cart has no such key.
QtyOf(c, k) == IF k \in Keys(c) THEN Item(c, k).qty ELSE 0

\* C17: after any earlier openings, size selections, adds and closes, the add
\* of a flat-price product (its size choice hidden) adds one unit of the line
\* item named exactly the product name, never "<name> (size)".
C17_FlatProductKeepsItsName ==
    [][(AddedStep /\ ~IsMultiSize(opened))
          => QtyOf(cart', opened.name) = QtyOf(cart, opened.name) + 1]_vars

\* No step changes the name, price or image of an entry that stays in the cart.
EntriesKeepTheirData ==
    [][\A k \in Keys(cart) \cap Keys(cart') :
          /\ Item(cart', k).name = Item(cart, k).name
          /\ Item(cart', k).price = Item(cart, k).price
          /\ Item(cart', k).img = Item(cart, k).img]_vars

\* C18: once an entry is in the cart its name, price and image never change
\* until it is removed (an add under an existing name at another price keeps
\* the first price), and each entry's key always equals its name field.
C18_EntryDataStableKeyIsName ==
    /\ EntriesKeepTheirData
    /\ [](\A i \in 1..Len(cart.ents) : cart.ents[i].key = cart.ents[i].name)

\* C19: after every activation of the add control the control is enabled
\* again once the pending timers have fired (it is never left disabled for
\* good), and an activation that added an item leaves the product modal
\* closed.  (Checked under SpecLive.)
C19_EventuallyEnabledAgain ==
    /\ [](timers = <<>> => ~btnDisabled)
    /\ (btnDisabled ~> ~btnDisabled)
    /\ [][AddedStep => ~productModalOpen']_vars

\* An item was added through the detail view, every timer has fired, and the
\* control is enabled with the product modal closed.
C19_Witness ==
    /\ \E i \in 1..Len(cart.ents) : cart.ents[i].img = <<"latte.png">>
    /\ timers = <<>>
    /\ ~btnDisabled
    /\ ~productModalOpen

====
